---------------------------- MODULE Spec2Model ----------------------------
(***************************************************************************)
(* The Quaternion type of src/src/lib.rs and its arithmetic.               *)
(*                                                                         *)
(* Quaternion has four f64 fields i, j, k, l.  Every operation is a pure   *)
(* function of f64 values, so what the operations do is decided by IEEE    *)
(* 754 binary arithmetic: round to nearest, ties to even, gradual          *)
(* underflow, overflow to infinity, NaN, signed zero.  The model keeps all *)
(* of that and reduces only the width of the format: binary64 has          *)
(* precision 53, emax 1023 and emin -1022; the model's format has          *)
(* Precision, Emax and -EminMag.                                           *)
(*                                                                         *)
(* A float is a record [k, s, m]: k is "fin", "inf" or "nan", s is the     *)
(* sign bit, and m is the magnitude of a finite value counted in units of  *)
(* the smallest subnormal, 2^(emin - Precision + 1) = 2^(-FracBits).       *)
(***************************************************************************)
EXTENDS Integers, FiniteSets, Sequences

\* ---------------------------------------------------------------- format

\* Significand bits, hidden bit included (binary64: 53).
Precision == 4
\* Largest exponent (binary64: 1023).
Emax == 4
\* Magnitude of the smallest normal exponent (binary64: 1022).
EminMag == 1
\* Integer components of the enumerated operands range over -MaxInt..MaxInt.
MaxInt == 1

FracBits == EminMag + Precision - 1
MaxBits == Precision + Emax + EminMag
\* Largest finite magnitude, (2 - 2^(1-Precision)) * 2^Emax, in units.
MaxMag == (2^Precision - 1) * 2^(MaxBits - Precision)

Fin(sg, mag) == [k |-> "fin", s |-> sg, m |-> mag]
Inf(sg) == [k |-> "inf", s |-> sg, m |-> 0]
NaN == [k |-> "nan", s |-> 0, m |-> 0]

IsNaN(x) == x.k = "nan"
IsInf(x) == x.k = "inf"
IsFin(x) == x.k = "fin"
IsZero(x) == x.k = "fin" /\ x.m = 0

Xor(s1, s2) == (s1 + s2) % 2

\* The f64 values, and the quaternions over them.  The operations below are
\* functions on these sets, so that an operand is a value when the
\* operation reads it, as an f64 passed to a Rust function is.
Float == [k : {"fin", "inf", "nan"}, s : {0, 1}, m : Nat]
Quaternion == [i : Float, j : Float, k : Float, l : Float]

\* The smallest L with A / B < 2^L: the bit length of the integer part.
BitLenFrom[A \in Nat, B \in Nat, L \in Nat] ==
    IF A < B * 2^L THEN L ELSE BitLenFrom[A, B, L + 1]
BitLen(A, B) == BitLenFrom[A, B, 0]

\* The exponent of the rounding quantum of a value of bit length L: 0 below
\* 2^Precision (subnormals and the first binade are spaced one unit apart),
\* else bit length minus Precision.
QuantumOf(L) == IF L > Precision THEN L - Precision ELSE 0
Quantum(A, B) == QuantumOf(BitLen(A, B))

\* Round to nearest, ties to even: the quotient q with remainder r of a
\* division by qn goes up when r is over half of qn, or half and q is odd.
Nearest(q, r, qn) ==
    IF (2 * r > qn) \/ (2 * r = qn /\ q % 2 = 1) THEN q + 1 ELSE q

\* A / B units rounded to a multiple of 2^e units.
RoundTo(A, B, e) == Nearest(A \div (B * 2^e), A % (B * 2^e), B * 2^e) * 2^e

\* A / B units rounded to nearest, ties to even, as a magnitude in units
\* (it may exceed MaxMag: Saturate turns that into an infinity).
RoundMag(A, B) == RoundTo(A, B, Quantum(A, B))

Saturate(sg, mag) == IF mag > MaxMag THEN Inf(sg) ELSE Fin(sg, mag)

\* The float nearest to (-1)^sg * A / B units.
RoundAt[sg \in {0, 1}, A \in Nat, B \in Nat] == Saturate(sg, RoundMag(A, B))
Round(sg, A, B) == RoundAt[sg, A, B]

\* No rounding and no overflow: A / B is a finite float as it stands.
Representable(A, B) ==
    /\ A % (B * 2^Quantum(A, B)) = 0
    /\ RoundMag(A, B) <= MaxMag

\* The signed value of a finite float, in units.
Val(x) == IF x.s = 1 THEN 0 - x.m ELSE x.m

\* ------------------------------------------------------ f64 operations

\* -x
Minus[x \in Float] == IF IsNaN(x) THEN NaN ELSE [x EXCEPT !.s = 1 - x.s]
FNeg(x) == Minus[x]

\* f64::abs
AbsF[x \in Float] == IF IsNaN(x) THEN NaN ELSE [x EXCEPT !.s = 0]
FAbs(x) == AbsF[x]

\* The float of the exact sum v (in units) of the finite floats x and y: a
\* zero sum is -0.0 only when both are negative (zeros).
Sum(x, y, v) ==
    IF v = 0
    THEN Fin(IF x.s = 1 /\ y.s = 1 THEN 1 ELSE 0, 0)
    ELSE Round(IF v < 0 THEN 1 ELSE 0, IF v < 0 THEN 0 - v ELSE v, 1)

\* x + y
Plus[x \in Float, y \in Float] ==
    IF IsNaN(x) \/ IsNaN(y) THEN NaN
    ELSE IF IsInf(x) /\ IsInf(y) THEN (IF x.s = y.s THEN x ELSE NaN)
    ELSE IF IsInf(x) THEN x
    ELSE IF IsInf(y) THEN y
    ELSE Sum(x, y, Val(x) + Val(y))
FAdd(x, y) == Plus[x, y]

\* x - y
FSub(x, y) == Plus[x, FNeg(y)]

\* x * y
Times[x \in Float, y \in Float] ==
    IF IsNaN(x) \/ IsNaN(y) THEN NaN
    ELSE IF (IsInf(x) /\ IsZero(y)) \/ (IsZero(x) /\ IsInf(y)) THEN NaN
    ELSE IF IsInf(x) \/ IsInf(y) THEN Inf(Xor(x.s, y.s))
    ELSE Round(Xor(x.s, y.s), x.m * y.m, 2^FracBits)
FMul(x, y) == Times[x, y]

\* x / y
Over[x \in Float, y \in Float] ==
    IF IsNaN(x) \/ IsNaN(y) THEN NaN
    ELSE IF (IsInf(x) /\ IsInf(y)) \/ (IsZero(x) /\ IsZero(y)) THEN NaN
    ELSE IF IsInf(x) \/ IsZero(y) THEN Inf(Xor(x.s, y.s))
    ELSE IF IsInf(y) THEN Fin(Xor(x.s, y.s), 0)
    ELSE Round(Xor(x.s, y.s), x.m * 2^FracBits, y.m)
FDiv(x, y) == Over[x, y]

\* The integer square root: the largest r with r * r <= n, by bisection
\* on lo <= r < hi.
ISqrtIn[n \in Nat, lo \in Nat, hi \in Nat] ==
    IF hi - lo <= 1 THEN lo
    ELSE IF ((lo + hi) \div 2) * ((lo + hi) \div 2) <= n
         THEN ISqrtIn[n, (lo + hi) \div 2, hi]
         ELSE ISqrtIn[n, lo, (lo + hi) \div 2]
ISqrt(n) == ISqrtIn[n, 0, 2^MaxBits]

\* The square root of N rounded to a multiple of 2^e: q = floor(sqrt(N) / 2^e)
\* goes up when sqrt(N) is over the midpoint (q + 1/2) * 2^e.
SqrtNearest(N, q, e) ==
    IF 4 * N > (2 * q + 1) * (2 * q + 1) * 4^e THEN (q + 1) * 2^e ELSE q * 2^e

SqrtTo[N \in Nat, e \in Nat] == SqrtNearest(N, ISqrt(N \div 4^e), e)

\* The square root of N (units squared) rounded to nearest, in units.
SqrtMag(N) == SqrtTo[N, QuantumOf(BitLen(ISqrt(N), 1))]

\* x.powf(2.0): pow(x, 2) is x * x, correctly rounded.
PowfTwo(x) == FMul(x, x)

\* x.powf(0.5): pow(x, 0.5) is the correctly rounded square root, except
\* that pow(-0, 0.5) = +0 and pow(-inf, 0.5) = +inf.
Root[x \in Float] ==
    IF IsNaN(x) THEN NaN
    ELSE IF IsInf(x) THEN Inf(0)
    ELSE IF x.m = 0 THEN Fin(0, 0)
    ELSE IF x.s = 1 THEN NaN
    ELSE Fin(0, SqrtMag(x.m * 2^FracBits))
PowfHalf(x) == Root[x]

\* x == y on f64: NaN equals nothing, -0.0 equals 0.0.
Equal[x \in Float, y \in Float] ==
    /\ ~IsNaN(x)
    /\ ~IsNaN(y)
    /\ \/ x = y
       \/ IsZero(x) /\ IsZero(y)
FEq(x, y) == Equal[x, y]

\* ------------------------------------------------------------ literals

\* The f64 of an integer literal n.0 (n small enough to be exact).
FromInt(n) == IF n < 0 THEN Fin(1, (0 - n) * 2^FracBits) ELSE Fin(0, n * 2^FracBits)
Zero == FromInt(0)
One == FromInt(1)
\* 0.5
Half == Fin(0, 2^(FracBits - 1))
\* The largest finite float (f64::MAX) and the smallest subnormal.
Big == Fin(0, MaxMag)
Tiny == Fin(0, 1)

\* ---------------------------------------------------------- Quaternion

\* Quaternion::new
new(alpha, beta, charlie, delta) ==
    [i |-> alpha, j |-> beta, k |-> charlie, l |-> delta]

\* Quaternion::conj
conj(self) == [i |-> self.i, j |-> FNeg(self.j), k |-> FNeg(self.k), l |-> FNeg(self.l)]

\* Quaternion::grassman_product
GrassmanProduct[delta \in Quaternion, echo \in Quaternion] ==
    [i |-> FSub(FSub(FSub(FMul(delta.i, echo.i), FMul(delta.j, echo.j)),
                     FMul(delta.k, echo.k)), FMul(delta.l, echo.l)),
     j |-> FSub(FAdd(FAdd(FMul(delta.i, echo.j), FMul(delta.j, echo.i)),
                     FMul(delta.k, echo.l)), FMul(delta.l, echo.k)),
     k |-> FAdd(FAdd(FSub(FMul(delta.i, echo.k), FMul(delta.j, echo.l)),
                     FMul(delta.k, echo.i)), FMul(delta.l, echo.j)),
     l |-> FAdd(FSub(FAdd(FMul(delta.i, echo.l), FMul(delta.j, echo.k)),
                     FMul(delta.k, echo.j)), FMul(delta.l, echo.i))]

\* grassman_product with the sign of the last term of j turned:
\* + delta.l * echo.k.
grassman_product_sign_slip(delta, echo) ==
    [i |-> FSub(FSub(FSub(FMul(delta.i, echo.i), FMul(delta.j, echo.j)),
                     FMul(delta.k, echo.k)), FMul(delta.l, echo.l)),
     j |-> FAdd(FAdd(FAdd(FMul(delta.i, echo.j), FMul(delta.j, echo.i)),
                     FMul(delta.k, echo.l)), FMul(delta.l, echo.k)),
     k |-> FAdd(FAdd(FSub(FMul(delta.i, echo.k), FMul(delta.j, echo.l)),
                     FMul(delta.k, echo.i)), FMul(delta.l, echo.j)),
     l |-> FAdd(FSub(FAdd(FMul(delta.i, echo.l), FMul(delta.j, echo.k)),
                     FMul(delta.k, echo.j)), FMul(delta.l, echo.i))]
grassman_product(delta, echo) == GrassmanProduct[delta, echo]

\* impl Add for Quaternion
Add[self \in Quaternion, alpha \in Quaternion] ==
    [i |-> FAdd(self.i, alpha.i), j |-> FAdd(self.j, alpha.j),
     k |-> FAdd(self.k, alpha.k), l |-> FAdd(self.l, alpha.l)]

\* Add with the l fields subtracted.
add_l_subtracted(self, alpha) ==
    [i |-> FAdd(self.i, alpha.i), j |-> FAdd(self.j, alpha.j),
     k |-> FAdd(self.k, alpha.k), l |-> FSub(self.l, alpha.l)]
add(self, alpha) == Add[self, alpha]

\* impl Sub for Quaternion
Sub[self \in Quaternion, alpha \in Quaternion] ==
    [i |-> FSub(self.i, alpha.i), j |-> FSub(self.j, alpha.j),
     k |-> FSub(self.k, alpha.k), l |-> FSub(self.l, alpha.l)]

sub(self, alpha) == Sub[self, alpha]

\* impl Mul for Quaternion
Mul[self \in Quaternion, alpha \in Quaternion] ==
    [i |-> FSub(FSub(FSub(FMul(self.i, alpha.i), FMul(self.j, alpha.j)),
                     FMul(self.k, alpha.k)), FMul(self.l, alpha.l)),
     j |-> FSub(FAdd(FAdd(FMul(self.i, alpha.j), FMul(self.j, alpha.i)),
                     FMul(self.k, alpha.l)), FMul(self.l, alpha.k)),
     k |-> FAdd(FAdd(FSub(FMul(self.i, alpha.k), FMul(self.j, alpha.l)),
                     FMul(self.k, alpha.i)), FMul(self.l, alpha.j)),
     l |-> FAdd(FSub(FAdd(FMul(self.i, alpha.l), FMul(self.j, alpha.k)),
                     FMul(self.k, alpha.j)), FMul(self.l, alpha.i))]

\* Mul with the sign of the last term of k turned: - l * alpha.j.
mul_sign_slip(self, alpha) ==
    [i |-> FSub(FSub(FSub(FMul(self.i, alpha.i), FMul(self.j, alpha.j)),
                     FMul(self.k, alpha.k)), FMul(self.l, alpha.l)),
     j |-> FSub(FAdd(FAdd(FMul(self.i, alpha.j), FMul(self.j, alpha.i)),
                     FMul(self.k, alpha.l)), FMul(self.l, alpha.k)),
     k |-> FSub(FAdd(FSub(FMul(self.i, alpha.k), FMul(self.j, alpha.l)),
                     FMul(self.k, alpha.i)), FMul(self.l, alpha.j)),
     l |-> FAdd(FSub(FAdd(FMul(self.i, alpha.l), FMul(self.j, alpha.k)),
                     FMul(self.k, alpha.j)), FMul(self.l, alpha.i))]
mul(self, alpha) == Mul[self, alpha]

\* Quaternion::cross_product
CrossProduct[delta \in Quaternion, echo \in Quaternion] ==
    LET b == new(Half, Zero, Zero, Zero)
        q == sub(grassman_product(delta, echo), grassman_product(echo, delta))
    IN grassman_product(b, q)

cross_product(delta, echo) == CrossProduct[delta, echo]

\* Quaternion::real
real(self) == self.i

\* Quaternion::imag
imag(self) == <<self.j, self.k, self.l>>

\* Quaternion::abs
Magnitude[self \in Quaternion] ==
    PowfHalf(FAdd(FAdd(FAdd(PowfTwo(self.i), PowfTwo(self.j)), PowfTwo(self.k)),
                  PowfTwo(self.l)))

abs(self) == Magnitude[self]

\* Quaternion::exchangeable, its test of q: every field == 0.0
AllZero[q \in Quaternion] ==
    FEq(q.i, Zero) /\ FEq(q.j, Zero) /\ FEq(q.k, Zero) /\ FEq(q.l, Zero)

\* Quaternion::exchangeable
Exchange[self \in Quaternion, alpha \in Quaternion] ==
    IF AllZero[cross_product(self, alpha)] THEN TRUE ELSE FALSE
\* exchangeable testing the real part of the cross product only.
exchangeable_real_only(self, alpha) ==
    IF FEq(cross_product(self, alpha).i, Zero) THEN TRUE ELSE FALSE
exchangeable(self, alpha) == Exchange[self, alpha]

\* Quaternion::divide_elementwise
DivideElementwise[self \in Quaternion, alpha \in Float] ==
    LET a0 == FAbs(alpha)
    IN [i |-> FDiv(self.i, a0), j |-> FDiv(self.j, a0),
        k |-> FDiv(self.k, a0), l |-> FDiv(self.l, a0)]

\* divide_elementwise without alpha.abs().
divide_elementwise_signed(self, alpha) ==
    [i |-> FDiv(self.i, alpha), j |-> FDiv(self.j, alpha),
     k |-> FDiv(self.k, alpha), l |-> FDiv(self.l, alpha)]
divide_elementwise(self, alpha) == DivideElementwise[self, alpha]

\* Quaternion::unit
unit(self) == divide_elementwise(self, abs(self))

\* The scalar multiply with the real part left unscaled.
mul_scalar_imag_only(self, alpha) ==
    [i |-> self.i, j |-> FMul(self.j, alpha),
     k |-> FMul(self.k, alpha), l |-> FMul(self.l, alpha)]

\* The scalar-multiply overload of the multiplication operator, a * scalar:
\* every component times the scalar.
mul_scalar(self, alpha) ==
    [i |-> FMul(self.i, alpha), j |-> FMul(self.j, alpha),
     k |-> FMul(self.k, alpha), l |-> FMul(self.l, alpha)]

\* #[derive(PartialEq)]: ==, field by field.
eq(self, other) ==
    FEq(self.i, other.i) /\ FEq(self.j, other.j) /\ FEq(self.k, other.k) /\ FEq(self.l, other.l)

\* ------------------------------------------------------------ operands

Ints == (0 - MaxInt)..MaxInt

\* Every quaternion with small integer components.
Grid ==
    {new(FromInt(w), FromInt(x), FromInt(y), FromInt(z)) : w, x, y, z \in Ints}

QZero == new(Zero, Zero, Zero, Zero)
\* The basis elements 1, i, j, k.
QOne == new(One, Zero, Zero, Zero)
QI == new(Zero, One, Zero, Zero)
QJ == new(Zero, Zero, One, Zero)
QK == new(Zero, Zero, Zero, One)
\* The operands of test_basic_calculations.
Q1234 == new(FromInt(1), FromInt(2), FromInt(3), FromInt(4))
QNeg1234 == new(FromInt(-1), FromInt(-2), FromInt(-3), FromInt(-4))

\* The smallest float whose successor is two units away.
Wide == Fin(0, 2^Precision)

\* Quaternions at the edges of the format: the largest finite float, the
\* smallest subnormal, an infinity, a NaN, a negative zero.
Edge ==
    {new(Big, Zero, Zero, Zero), new(Zero, Zero, Big, Zero), new(Zero, Zero, Zero, Big),
     new(Tiny, Zero, Zero, Zero), new(Wide, Zero, Tiny, Zero),
     new(Zero, Half, Zero, Tiny), new(Half, Half, Half, Half),
     new(Inf(0), Zero, Zero, Zero), new(Zero, Inf(1), Zero, Zero),
     new(NaN, Zero, Zero, Zero), new(Fin(1, 0), Zero, One, Zero)}

Special == {QOne, QI, QJ, QK, Q1234, QNeg1234} \cup Edge

Quats == Grid \cup Special

Scalars ==
    {FromInt(n) : n \in Ints} \cup
    {Half, FNeg(Half), FromInt(3), FromInt(-3), Big, FNeg(Big), Tiny, Inf(0), Inf(1), NaN}

\* The operands of the three-operand laws: the units, the basis elements
\* and their negatives, and a few quaternions whose products round.
Axis ==
    {new(FromInt(n), Zero, Zero, Zero) : n \in Ints} \cup
    {new(Zero, FromInt(n), Zero, Zero) : n \in Ints} \cup
    {new(Zero, Zero, FromInt(n), Zero) : n \in Ints} \cup
    {new(Zero, Zero, Zero, FromInt(n)) : n \in Ints}

Triples ==
    Axis \cup
    {Q1234, new(One, One, One, One), new(Half, Half, Half, Half),
     new(Half, Zero, One, Zero), new(Zero, FromInt(3), Zero, FromInt(-1)),
     new(FromInt(5), Zero, Zero, One), new(Tiny, Zero, Zero, Tiny),
     new(FromInt(3), FromInt(-2), Zero, Zero)}

\* --------------------------------------------------------------- state

VARIABLES
    a,      \* first operand
    b,      \* second operand
    c,      \* third operand
    s,      \* scalar operand
    op,     \* the call made on the operands, "new" before any
    q1,     \* quaternion results of the call
    q2,
    q3,
    x,      \* f64 result of the call
    ok      \* bool result of the call

vars == <<a, b, c, s, op, q1, q2, q3, x, ok>>

Fresh ==
    /\ op = "new"
    /\ q1 = QZero
    /\ q2 = QZero
    /\ q3 = QZero
    /\ x = Zero
    /\ ok = FALSE

\* ---------------------------------------------- two-operand operations

Init ==
    /\ a \in Quats
    /\ b \in Quats
    /\ a \in Special \/ b \in Special
    /\ c = QZero
    /\ s = Zero
    /\ Fresh

\* a * b and Quaternion::grassman_product(a, b)
Multiply ==
    /\ op = "new"
    /\ op' = "mul"
    /\ q1' = mul(a, b)
    /\ q2' = grassman_product(a, b)
    /\ UNCHANGED <<a, b, c, s, q3, x, ok>>

\* a * b and b * a
Commute ==
    /\ op = "new"
    /\ op' = "commute"
    /\ q1' = mul(a, b)
    /\ q2' = mul(b, a)
    /\ UNCHANGED <<a, b, c, s, q3, x, ok>>

\* Quaternion::cross_product(a, b)
Cross ==
    /\ op = "new"
    /\ op' = "cross_product"
    /\ q1' = cross_product(a, b)
    /\ UNCHANGED <<a, b, c, s, q2, q3, x, ok>>

\* a.exchangeable(&b), beside the two products and the cross product
Exchangeable ==
    /\ op = "new"
    /\ op' = "exchangeable"
    /\ ok' = exchangeable(a, b)
    /\ q1' = grassman_product(a, b)
    /\ q2' = grassman_product(b, a)
    /\ q3' = cross_product(a, b)
    /\ UNCHANGED <<a, b, c, s, x>>

\* b becomes the scalar multiple of a by t; a.exchangeable(&b) and
\* b.exchangeable(&a)
ScalarMultiple ==
    /\ op = "new"
    /\ b = QOne
    /\ \E t \in Scalars :
        LET p == new(FMul(t, a.i), FMul(t, a.j), FMul(t, a.k), FMul(t, a.l))
        IN /\ s' = t
           /\ b' = p
           /\ ok' = (exchangeable(a, p) /\ exchangeable(p, a))
    /\ op' = "scalar_multiple"
    /\ UNCHANGED <<a, c, q1, q2, q3, x>>

Next == Multiply \/ Commute \/ Cross \/ Exchangeable \/ ScalarMultiple

Spec == Init /\ [][Next]_vars

\* -------------------------------------------- three-operand operations

InitTernary ==
    /\ a \in Triples
    /\ b \in Triples
    /\ c \in Triples
    /\ s = Zero
    /\ Fresh

\* grassman_product(a, b + c) and grassman_product(a, b) + grassman_product(a, c)
Distribute ==
    /\ op = "new"
    /\ op' = "distribute"
    /\ q1' = grassman_product(a, add(b, c))
    /\ q2' = add(grassman_product(a, b), grassman_product(a, c))
    /\ UNCHANGED <<a, b, c, s, q3, x, ok>>

\* grassman_product(grassman_product(a, b), c) and
\* grassman_product(a, grassman_product(b, c))
Associate ==
    /\ op = "new"
    /\ op' = "associate"
    /\ q1' = grassman_product(grassman_product(a, b), c)
    /\ q2' = grassman_product(a, grassman_product(b, c))
    /\ UNCHANGED <<a, b, c, s, q3, x, ok>>

NextTernary == Distribute \/ Associate

SpecTernary == InitTernary /\ [][NextTernary]_vars

\* ---------------------------------------------- one-operand operations

InitUnary ==
    /\ a \in Quats
    /\ s \in Scalars
    /\ b = QZero
    /\ c = QZero
    /\ Fresh

\* a.abs()
Abs ==
    /\ op = "new"
    /\ s = Zero
    /\ op' = "abs"
    /\ x' = abs(a)
    /\ UNCHANGED <<a, b, c, s, q1, q2, q3, ok>>

\* a.unit() and a.unit().abs()
Unit ==
    /\ op = "new"
    /\ s = Zero
    /\ op' = "unit"
    /\ q1' = unit(a)
    /\ x' = abs(unit(a))
    /\ UNCHANGED <<a, b, c, s, q2, q3, ok>>

\* a.divide_elementwise(s) and a.divide_elementwise(-s)
Divide ==
    /\ op = "new"
    /\ op' = "divide_elementwise"
    /\ q1' = divide_elementwise(a, s)
    /\ q2' = divide_elementwise(a, FNeg(s))
    /\ UNCHANGED <<a, b, c, s, q3, x, ok>>

\* a * s
MulScalar ==
    /\ op = "new"
    /\ op' = "mul_scalar"
    /\ q1' = mul_scalar(a, s)
    /\ UNCHANGED <<a, b, c, s, q2, q3, x, ok>>

NextUnary == Abs \/ Unit \/ Divide \/ MulScalar

SpecUnary == InitUnary /\ [][NextUnary]_vars

\* --------------------------------------------------------- properties

\* A quaternion proper: every component a finite number.
FiniteQ(q) == IsFin(q.i) /\ IsFin(q.j) /\ IsFin(q.k) /\ IsFin(q.l)

\* The same number: equal as f64, or both NaN.
SameF(u, v) == (IsNaN(u) /\ IsNaN(v)) \/ FEq(u, v)
SameQ(p, q) == SameF(p.i, q.i) /\ SameF(p.j, q.j) /\ SameF(p.k, q.k) /\ SameF(p.l, q.l)

\* The Hamilton product as the specification writes it, with r, x, y, z for
\* the fields i, j, k, l.
Hamilton(p, q) ==
    LET ar == p.i  ax == p.j  ay == p.k  az == p.l
        br == q.i  bx == q.j  by == q.k  bz == q.l
    IN new(FSub(FSub(FSub(FMul(ar, br), FMul(ax, bx)), FMul(ay, by)), FMul(az, bz)),
           FSub(FAdd(FAdd(FMul(ar, bx), FMul(ax, br)), FMul(ay, bz)), FMul(az, by)),
           FAdd(FAdd(FSub(FMul(ar, by), FMul(ax, bz)), FMul(ay, br)), FMul(az, bx)),
           FAdd(FSub(FAdd(FMul(ar, bz), FMul(ax, by)), FMul(ay, bx)), FMul(az, br)))

Q28 == new(FromInt(28), FromInt(-4), FromInt(-6), FromInt(-8))

\* C1: for all quaternions a and b, a * b and grassman_product(a, b) return
\* the same quaternion, which is the Hamilton product of the formula; and
\* (1,2,3,4) * (-1,-2,-3,-4) is (28,-4,-6,-8) by both routes.
C1_MulIsGrassmanProduct ==
    op = "mul" =>
        /\ q1 = q2
        /\ q1 = Hamilton(a, b)
        /\ (a = Q1234 /\ b = QNeg1234) => (q1 = Q28 /\ q2 = Q28)

C1_Witness == op = "mul" /\ a = Q1234 /\ b = QNeg1234 /\ q1 = Q28 /\ q2 = Q28

\* C4: the Hamilton product is not commutative: for i = (0,1,0,0) and
\* j = (0,0,1,0), i * j != j * i and i.exchangeable(j) is false.
C4_NonCommutative ==
    (a = QI /\ b = QJ) =>
        /\ op = "commute" => ~eq(q1, q2)
        /\ op = "exchangeable" => (ok = FALSE /\ ~eq(q1, q2))

C4_Witness ==
    op = "commute" /\ a = QI /\ b = QJ /\ q1 = QK /\ q2 = new(Zero, Zero, Zero, FromInt(-1))

\* No f64 operation rounds, overflows or meets an infinity or a NaN: the
\* result is the exact sum, difference or product of finite operands.
ExactAdd(u, v) ==
    /\ IsFin(u)
    /\ IsFin(v)
    /\ \/ Val(u) + Val(v) = 0
       \/ Val(u) + Val(v) > 0 /\ Representable(Val(u) + Val(v), 1)
       \/ Val(u) + Val(v) < 0 /\ Representable(0 - (Val(u) + Val(v)), 1)

ExactSub(u, v) == ExactAdd(u, FNeg(v))

ExactMul(u, v) ==
    /\ IsFin(u)
    /\ IsFin(v)
    /\ u.m * v.m = 0 \/ Representable(u.m * v.m, 2^FracBits)

\* t1 then t2, t3, t4 added (sign 0) or subtracted (sign 1) from the left.
Combine(sign, u, v) == IF sign = 1 THEN FSub(u, v) ELSE FAdd(u, v)
ExactCombine(sign, u, v) == IF sign = 1 THEN ExactSub(u, v) ELSE ExactAdd(u, v)

\* One component of a Hamilton product,
\* ((u1*v1 +- u2*v2) +- u3*v3) +- u4*v4, computed without rounding.
ExactLine[u1 \in Float, v1 \in Float, g2 \in {0, 1}, u2 \in Float, v2 \in Float,
          g3 \in {0, 1}, u3 \in Float, v3 \in Float,
          g4 \in {0, 1}, u4 \in Float, v4 \in Float] ==
    /\ ExactMul(u1, v1)
    /\ ExactMul(u2, v2)
    /\ ExactMul(u3, v3)
    /\ ExactMul(u4, v4)
    /\ ExactCombine(g2, FMul(u1, v1), FMul(u2, v2))
    /\ ExactCombine(g3, Combine(g2, FMul(u1, v1), FMul(u2, v2)), FMul(u3, v3))
    /\ ExactCombine(g4, Combine(g3, Combine(g2, FMul(u1, v1), FMul(u2, v2)), FMul(u3, v3)),
                    FMul(u4, v4))

\* grassman_product(d, e) computed without rounding in any of its 28
\* operations.
ExactGrassman[d \in Quaternion, e \in Quaternion] ==
    /\ ExactLine[d.i, e.i, 1, d.j, e.j, 1, d.k, e.k, 1, d.l, e.l]
    /\ ExactLine[d.i, e.j, 0, d.j, e.i, 0, d.k, e.l, 1, d.l, e.k]
    /\ ExactLine[d.i, e.k, 1, d.j, e.l, 0, d.k, e.i, 0, d.l, e.j]
    /\ ExactLine[d.i, e.l, 0, d.j, e.k, 1, d.k, e.j, 0, d.l, e.i]

\* p + q computed without rounding.
ExactAddQ[p \in Quaternion, q \in Quaternion] ==
    ExactAdd(p.i, q.i) /\ ExactAdd(p.j, q.j) /\ ExactAdd(p.k, q.k) /\ ExactAdd(p.l, q.l)

\* Neither side of the distributive law rounds.
ExactDistribute ==
    /\ ExactAddQ[b, c]
    /\ ExactGrassman[a, add(b, c)]
    /\ ExactGrassman[a, b]
    /\ ExactGrassman[a, c]
    /\ ExactAddQ[grassman_product(a, b), grassman_product(a, c)]

\* Neither side of the associative law rounds.
ExactAssociate ==
    /\ ExactGrassman[a, b]
    /\ ExactGrassman[grassman_product(a, b), c]
    /\ ExactGrassman[b, c]
    /\ ExactGrassman[a, grassman_product(b, c)]

\* C2 as stated: for all quaternions a, b, c,
\* grassman_product(a, b + c) == grassman_product(a, b) + grassman_product(a, c).
C2_Distributes == op = "distribute" => eq(q1, q2)

\* C2, amended: the two sides are equal whenever no f64 operation of either
\* side rounds, overflows or underflows.
C2_DistributesWhenExact == (op = "distribute" /\ ExactDistribute) => eq(q1, q2)

\* An exact case where all three operands have imaginary parts and nothing
\* is zero on the way: i * (j + k) = k - j.
C2_Witness ==
    /\ op = "distribute"
    /\ ExactDistribute
    /\ a = QI
    /\ b = QJ
    /\ c = QK
    /\ q1 = new(Zero, Zero, FromInt(-1), One)
    /\ eq(q1, q2)

\* C3 as stated: for all quaternions a, b, c,
\* grassman_product(grassman_product(a, b), c) ==
\* grassman_product(a, grassman_product(b, c)).
C3_Associates == op = "associate" => eq(q1, q2)

\* C3, amended: the two sides are equal whenever no f64 operation of either
\* side rounds, overflows or underflows.
C3_AssociatesWhenExact == (op = "associate" /\ ExactAssociate) => eq(q1, q2)

\* An exact case: (i * j) * k = i * (j * k) = -1.
C3_Witness ==
    /\ op = "associate"
    /\ ExactAssociate
    /\ a = QI
    /\ b = QJ
    /\ c = QK
    /\ q1 = new(FromInt(-1), Zero, Zero, Zero)
    /\ eq(q1, q2)

\* C5: for all quaternions a and b, a.exchangeable(b) is true if and only
\* if cross_product(a, b) is the zero quaternion, which holds if and only if
\* grassman_product(a, b) == grassman_product(b, a).
C5_ExchangeableIffCommute ==
    (op = "exchangeable" /\ FiniteQ(a) /\ FiniteQ(b)) =>
        /\ ok <=> eq(q3, QZero)
        /\ ok <=> eq(q1, q2)

\* C6: every quaternion q is exchangeable with itself, and with its
\* multiple (c*q.r, c*q.x, c*q.y, c*q.z) by any real scalar c, in both
\* argument orders.
C6_ExchangeableWithMultiples ==
    /\ (op = "exchangeable" /\ FiniteQ(a) /\ b = a) => ok
    /\ (op = "scalar_multiple" /\ FiniteQ(a) /\ IsFin(s) /\ FiniteQ(b)) => ok

\* 0.5 applied to every component of q.
HalfOf(q) == new(FMul(Half, q.i), FMul(Half, q.j), FMul(Half, q.k), FMul(Half, q.l))

\* The vector cross product of the imaginary parts, with real component 0.
VectorCross(p, q) ==
    new(Zero,
        FSub(FMul(p.k, q.l), FMul(p.l, q.k)),
        FSub(FMul(p.l, q.j), FMul(p.j, q.l)),
        FSub(FMul(p.j, q.k), FMul(p.k, q.j)))

\* C7: for all quaternions a and b, cross_product(a, b) is
\* 0.5 * (grassman_product(a, b) - grassman_product(b, a)) with the factor
\* applied to every component, and for pure-imaginary a and b it is the
\* vector cross product of their imaginary parts with real component 0.
C7_CrossProductIsHalfCommutator ==
    (op = "cross_product" /\ FiniteQ(a) /\ FiniteQ(b)) =>
        /\ SameQ(q1, HalfOf(sub(grassman_product(a, b), grassman_product(b, a))))
        /\ (IsZero(a.i) /\ IsZero(b.i)) => SameQ(q1, VectorCross(a, b))

\* C8: the scalar-multiply overload scales every component by the scalar,
\* a * s == (a.r*s, a.x*s, a.y*s, a.z*s), and q * 1 == q for every q.
C8_ScalarMultiply ==
    op = "mul_scalar" =>
        /\ q1 = new(FMul(a.i, s), FMul(a.j, s), FMul(a.k, s), FMul(a.l, s))
        /\ s = One => q1 = a

C8_Witness == op = "mul_scalar" /\ s = One /\ a = Q1234 /\ q1 = Q1234

\* C9: for any non-zero quaternion q, q.unit() is q with every component
\* divided by q.abs(), and q.unit().abs() == 1.0; abs(1,1,1,1) == 2.0.
C9_UnitHasMagnitudeOne ==
    /\ (op = "unit" /\ FiniteQ(a) /\ ~eq(a, QZero)) =>
        /\ q1 = new(FDiv(a.i, abs(a)), FDiv(a.j, abs(a)), FDiv(a.k, abs(a)),
                    FDiv(a.l, abs(a)))
        /\ FEq(x, One)
    /\ (op = "abs" /\ a = new(One, One, One, One)) => x = FromInt(2)

\* The sign is kept, or the quotient is a NaN, which has none.
SignKept(u, v) == IsNaN(v) \/ v.s = u.s

\* C10: divide_elementwise(q, s) divides every component of q by the
\* absolute value of s, so for every non-zero s it equals
\* divide_elementwise(q, -s), and a negative divisor flips the sign of no
\* component.
C10_DivideByAbsoluteValue ==
    (op = "divide_elementwise" /\ ~IsZero(s)) =>
        /\ q1 = new(FDiv(a.i, FAbs(s)), FDiv(a.j, FAbs(s)), FDiv(a.k, FAbs(s)),
                    FDiv(a.l, FAbs(s)))
        /\ q1 = q2
        /\ SignKept(a.i, q1.i) /\ SignKept(a.j, q1.j)
        /\ SignKept(a.k, q1.k) /\ SignKept(a.l, q1.l)

\* (1,2,3,4) divided by -0.5 is (2,4,6,8), as it is divided by 0.5.
C10_Witness ==
    /\ op = "divide_elementwise"
    /\ s = FNeg(Half)
    /\ a = Q1234
    /\ q1 = new(FromInt(2), FromInt(4), FromInt(6), FromInt(8))
    /\ q2 = q1

=============================================================================
